---- MODULE Spec2Model ----
(***************************************************************************)
(* A model of protocol/bt/torrent/peer_conn.go: one peerConn, its three    *)
(* activities (the caller running ready() and downloadPiece(), the receive *)
(* loop started by ready(), the keepalive loop), the remote peer and the   *)
(* shared piece-state tracker, plus the pure block-to-file mapping of      *)
(* handlePiece.                                                            *)
(***************************************************************************)
EXTENDS Integers, Sequences, FiniteSets, TLC

(***************************************************************************)
(* Program constants.                                                      *)
(***************************************************************************)
\* const blockSize = 2 << 13
blockSize == 16384
\* const keepaliveTimeout = 60 * 2
keepaliveTimeout == 120
\* time.Sleep(time.Minute * 2), in seconds
sleepSeconds == 120
\* make(chan interface{}, 5)
queueCap == 5

\* var errPieceCheckFailed = errors.New("piece check failed")
errPieceCheckFailed == "piece check failed"
\* Go's nil error
nil == "nil"
\* io.EOF, and any other error scanner.Err() may hold
EOF == "EOF"
readError == "read error"
\* the errors ready() returns: a dial error, the two handshake errors (an
\* I/O or decoding error, the hash mismatch), "ready fail", "ready time out"
dialError == "tcp dial error"
handshakeIoError == "handshake error: io"
hashMismatch == "handshake error: info_hash not currently serving"
readyFail == "ready fail"
readyTimedOut == "ready time out"

(***************************************************************************)
(* Bounds of the model.                                                    *)
(***************************************************************************)
\* messages the receive loop reads over the life of the connection
MaxMsgs == 4
\* keepalives the keepalive loop sends
MaxTicks == 1
\* the mapping's inputs: files per layout and bytes per file
MaxFiles == 4
MaxFileLen == 2
\* the Requests on their own: full blocks in a piece
MaxPlanBlocks == 6
\* the torrent of the connection: bytes in the last block of the last piece
LastBlockBytes == 100

VARIABLES
  \* pc.conn: "nil", "open" or "closed" (by this side); the remote side gone
  conn, peerClosed,
  \* peerConn flags
  amChoking, amInterested, peerChoking, peerInterested,
  \* time.Now().Unix() - pc.lastReciveTime, in seconds
  elapsed,
  \* pc.readyEnd (pc.bitfield is stored by handleBitfield and never read)
  readyEnd,
  \* readyCh: the values received from it, and whether it is closed
  readySent, readyClosed,
  \* pc.downloadedCh, pc.disconnectCh, pc.blockQueueCh
  downloadedCh, downloadedSent, disconnectCh, disconnectSent,
  blockQueueCh, tokens,
  \* torrent.pieceStates: the set of <<piece index, block offset>> done
  done,
  \* the number of messages scanner.Scan() has returned, and the number of
  \* Unchoke messages among them
  nMsgs, unchokes,
  \* the receive loop: where it is, the message in hand, the value it is
  \* about to send on a channel
  rxpc, cur, pending,
  \* verification: how often it ran, and whether downHash equalled the
  \* expected hash the last time
  nVerify, downHash,
  \* the keepalive loop
  kapc, nKeepalive,
  \* the caller: ready() then downloadPiece(index)
  callerpc, dlIndex, dlI, dlErr,
  \* what this side wrote to the socket: the Requests written, those of
  \* them no Piece message has answered yet, the number of Writes of an
  \* Interested and of an Unchoke message
  reqs, unanswered, nInterested, nUnchoke,
  \* a goroutine panicked: the process is gone
  panicked,
  \* the error ready() returned (nil: none so far)
  readyErr,
  \* the mapping on its own: its input and the fileBlocks computed
  mapIn, fileBlocks,
  \* the Requests of a piece on their own: info.PieceLength of the piece
  \* and the Requests written so far
  planLength, plan

connVars == <<conn, peerClosed, amChoking, amInterested, peerChoking,
              peerInterested, elapsed, readyEnd, readySent,
              readyClosed, downloadedCh, downloadedSent, disconnectCh,
              disconnectSent, blockQueueCh, tokens, done, nMsgs, unchokes, rxpc,
              cur, pending, nVerify, downHash, kapc, nKeepalive, callerpc,
              dlIndex, dlI, dlErr, reqs, unanswered, nInterested, nUnchoke,
              panicked, readyErr>>
mapVars == <<mapIn, fileBlocks, planLength, plan>>
vars == <<connVars, mapVars>>

(***************************************************************************)
(* The block-to-file mapping of handlePiece.                               *)
(* A FileDetail is [Begin, End); a fileBlock names its file by the file's  *)
(* index in fds (standing for filepath.Join(f.Path...)), -1 for info.Name. *)
(***************************************************************************)
RECURSIVE getWriteFileFrom(_, _, _)
getWriteFileFrom(pieceBegin, fds, i) ==
  IF i > Len(fds) THEN -1
  ELSE IF fds[i].Begin <= pieceBegin /\ fds[i].End > pieceBegin THEN i - 1
  ELSE getWriteFileFrom(pieceBegin, fds, i + 1)

\* func getWriteFile: the 0-based index of the first file holding the offset
getWriteFile(pieceBegin, fds) == getWriteFileFrom(pieceBegin, fds, 1)

\* fileWritable := f.End - blockFileBegin
fileWritableOf(f, blockFileBegin) == f.End - blockFileBegin

\* blockWritable := blockLength - blockSeek
blockWritableOf_Whole(blockLength, blockSeek) == blockLength
blockWritableOf(blockLength, blockSeek) == blockLength - blockSeek

\* fileSeek: blockFileBegin - f.Begin
fileSeekOf_Absolute(f, blockFileBegin) == blockFileBegin
fileSeekOf(f, blockFileBegin) == blockFileBegin - f.Begin

\* the body of "for _, f := range fds[writeIndex:]"; k is the 0-based index of f
RECURSIVE walkFiles(_, _, _, _, _, _)
walkFiles(fds, k, blockFileBegin, blockSeek, blockLength, acc) ==
  IF k >= Len(fds) THEN acc
  ELSE
    LET f == fds[k + 1]
        fileWritable == fileWritableOf(f, blockFileBegin)
        blockWritable == blockWritableOf(blockLength, blockSeek)
        fb(blockEnd) == [file |-> k, fileSeek |-> fileSeekOf(f, blockFileBegin),
                         blockBegin |-> blockSeek, blockEnd |-> blockEnd]
    IN IF fileWritable >= blockWritable
       THEN Append(acc, fb(blockSeek + blockWritable))
       ELSE walkFiles(fds, k + 1, f.End, blockSeek + fileWritable, blockLength,
                      Append(acc, fb(blockSeek + fileWritable)))

\* handlePiece, lines 302-345: the fileBlocks of a block; "panic" when
\* getWriteFile finds no file (fds[-1:] is out of range)
fileBlocksOf(multi, fds, PieceLength, Index, Begin, blockLength) ==
  LET pieceBegin == Index * PieceLength
      blockBegin == pieceBegin + Begin
  IN IF ~multi
     THEN << [file |-> -1, fileSeek |-> blockBegin, blockBegin |-> 0,
              blockEnd |-> blockLength] >>
     ELSE LET writeIndex == getWriteFile(blockBegin, fds)
          IN IF writeIndex < 0 THEN "panic"
             ELSE walkFiles(fds, writeIndex, blockBegin, 0, blockLength, << >>)

(***************************************************************************)
(* The inputs of the mapping: metainfo layouts and received blocks.        *)
(***************************************************************************)
RECURSIVE sumLens(_)
sumLens(lens) == IF lens = << >> THEN 0 ELSE Head(lens) + sumLens(Tail(lens))

\* MetaInfo.GetFileDetails(): file i covers [sum of the lengths before it,
\* that sum plus its own length)
fileDetails(lens) ==
  [i \in 1..Len(lens) |->
     [Begin |-> sumLens(SubSeq(lens, 1, i - 1)),
      End |-> sumLens(SubSeq(lens, 1, i))]]

\* the layout of the end-to-end scenario: two files of 10 and 20 bytes
scenarioLens == <<10, 20>>
fileLens ==
  UNION {[1..n -> 0..MaxFileLen] : n \in 1..MaxFiles} \cup {scenarioLens}
\* info.PieceLength
mapPieceLengths == {2, 3, 30}

\* a torrent (single-file when info.Files is empty) and a Piece message
\* Index, Begin, len(Block) whose block [b, b + bl) lies inside the payload
mapInput(multi, lens, PieceLength, b, bl) ==
  [multi |-> multi, lens |-> lens, PieceLength |-> PieceLength,
   Index |-> b \div PieceLength, Begin |-> b % PieceLength, blockLength |-> bl]

(***************************************************************************)
(* The torrent of the connection (pc.torrent) and its piece-state tracker. *)
(***************************************************************************)
\* info.PieceLength (a piece holds one block more than the block queue),
\* the number of pieces, MetaInfo.GetPieceLength(index)
torrentPieceLength == (queueCap + 1) * blockSize
pieces == {0, 1}
GetPieceLength(index) ==
  IF index = 1 THEN blockSize + LastBlockBytes
  ELSE torrentPieceLength
totalLength == GetPieceLength(0) + GetPieceLength(1)
\* two files; the boundary lies inside the last block of the last piece
torrentFds == fileDetails(<<totalLength - 1, 1>>)

\* pieceStates.states[index].blockCount
blockCountOf(pieceLength) == (pieceLength + blockSize - 1) \div blockSize
blockCount(index) == blockCountOf(GetPieceLength(index))
blockOffsets(index) == {blockSize * i : i \in 0..(blockCount(index) - 1)}
allBlocks == UNION {{<<ix, off>> : off \in blockOffsets(ix)} : ix \in pieces}
\* downloadPiece, lines 219-231: the length of block i of a piece; the
\* difference is at most blockSize, uint32() leaves it as it is
blockLengthOf_Full(pieceLength, count, i) == blockSize
blockLengthOf(pieceLength, count, i) ==
  IF i = count - 1 THEN pieceLength - blockSize * i
  ELSE blockSize
lengthOfBlock(index, i) ==
  blockLengthOf(GetPieceLength(index), blockCount(index), i)

\* pieceStates.isBlockDone, isPieceDone, getState(i) == stateFinish
isBlockDone(d, index, offset) == <<index, offset>> \in d
isPieceDone(d, index) == \A off \in blockOffsets(index) : <<index, off>> \in d
\* pieceStates.setBlockDone
setBlockDone(d, index, offset) == d \cup {<<index, offset>>}

\* the tracker when the connection starts: nothing done, the last piece
\* partly done, the last piece finished
initialDone ==
  { {}, {<<1, 0>>}, {<<1, off>> : off \in blockOffsets(1)} }

\* getHavePieces: the pieces of the bitfield that are not finished here
\* (bitfield.Provide(had))
getHavePieces(d, bf) == {ix \in bf : ~isPieceDone(d, ix)}

(***************************************************************************)
(* Messages of the peer wire protocol, as the receive loop sees them.      *)
(***************************************************************************)
noMsg == [id |-> "none", index |-> 0, begin |-> 0, have |-> {}]
msg(id) == [noMsg EXCEPT !.id = id]
\* length 0; Choke, Interested, NotInterested, Have, Request and Cancel are
\* all dispatched to an empty case, "choke" stands for them. The peer sends
\* Piece messages for the block offsets the last piece has, in either piece.
peerMessages ==
  {msg("keepalive"), msg("choke"), msg("unchoke")}
  \cup {[msg("bitfield") EXCEPT !.have = h] : h \in SUBSET pieces}
  \cup {[msg("piece") EXCEPT !.index = b[1], !.begin = b[2]] :
          b \in {x \in allBlocks : x[2] < blockSize * blockCount(1)}}

noPending == [err |-> nil, kind |-> "none"]
\* no input of the mapping drawn
noInput == [multi |-> TRUE, lens |-> << >>, PieceLength |-> 0, Index |-> 0,
            Begin |-> 0, blockLength |-> 0]

(***************************************************************************)
(* The state after newPeerConn.                                            *)
(***************************************************************************)
connInit ==
  /\ conn = "nil" /\ peerClosed = FALSE
  /\ amChoking = FALSE /\ amInterested = FALSE
  /\ peerChoking = FALSE /\ peerInterested = FALSE
  /\ elapsed = 0
  /\ readyEnd = FALSE
  /\ readySent = << >> /\ readyClosed = FALSE
  /\ downloadedCh = "nil" /\ downloadedSent = << >>
  /\ disconnectCh = "nil" /\ disconnectSent = << >>
  /\ blockQueueCh = "nil" /\ tokens = 0
  /\ nMsgs = 0 /\ unchokes = 0
  /\ rxpc = "off" /\ cur = noMsg /\ pending = noPending
  /\ nVerify = 0 /\ downHash = "none"
  /\ kapc = "off" /\ nKeepalive = 0
  /\ callerpc = "dial" /\ dlIndex = 0 /\ dlI = 0 /\ dlErr = nil
  /\ reqs = << >> /\ unanswered = {} /\ nInterested = 0 /\ nUnchoke = 0
  /\ panicked = "no" /\ readyErr = nil

Init ==
  /\ connInit
  /\ done \in initialDone
  /\ mapIn = noInput /\ fileBlocks = << >>
  /\ planLength = 0 /\ plan = << >>

(***************************************************************************)
(* The socket.                                                             *)
(***************************************************************************)
\* the outcomes of pc.conn.Write: it fails on a socket this side closed, it
\* may fail once the remote side is gone
writeOutcomes ==
  IF conn # "open" THEN {FALSE} ELSE IF peerClosed THEN BOOLEAN ELSE {TRUE}

alive == panicked = "no"

\* the remote peer closes or resets the connection
peerClose ==
  /\ alive
  /\ conn = "open" /\ ~peerClosed /\ rxpc # "off"
  /\ peerClosed' = TRUE
  /\ UNCHANGED <<conn, amChoking, amInterested, peerChoking,
                 peerInterested, elapsed, readyEnd, readySent,
                 readyClosed, downloadedCh, downloadedSent, disconnectCh,
                 disconnectSent, blockQueueCh, tokens, done, nMsgs, unchokes,
                 rxpc, cur, pending, nVerify, downHash, kapc, nKeepalive,
                 callerpc, dlIndex, dlI, dlErr, reqs, unanswered, nInterested,
                 nUnchoke, panicked,
                 readyErr, mapVars>>

(***************************************************************************)
(* ready(): dialMse, handshake, the two goroutines, the wait for readyCh.  *)
(***************************************************************************)
\* dialMse: net.DialTimeout and the MSE handshake succeed or fail
dialMse ==
  /\ alive
  /\ callerpc = "dial"
  /\ \E ok \in BOOLEAN :
       IF ok THEN conn' = "open" /\ callerpc' = "handshake" /\ readyErr' = nil
       ELSE conn' = conn /\ callerpc' = "failed" /\ readyErr' = dialError
  /\ UNCHANGED <<peerClosed, amChoking, amInterested, peerChoking,
                 peerInterested, elapsed, readyEnd, readySent,
                 readyClosed, downloadedCh, downloadedSent, disconnectCh,
                 disconnectSent, blockQueueCh, tokens, done, nMsgs, unchokes,
                 rxpc, cur, pending, nVerify, downHash, kapc, nKeepalive,
                 dlIndex, dlI, dlErr, reqs, unanswered, nInterested, nUnchoke,
                 panicked, mapVars>>

\* the answers to the handshake: the 68 bytes do not arrive, or they decode
\* to a Handshake with some InfoHash and PeerID
handshakeAnswers ==
  [read : BOOLEAN, InfoHash : {"ours", "other"}, PeerID : {"p", "q"}]

\* "if handshakeRes.InfoHash != handshakeReq.InfoHash"
hashMatches_Any(res) == TRUE
hashMatches(res) == res.InfoHash = "ours"

\* the error of handshake()'s inner function: the Write, ReadFull or Decode
\* failed, or the hashes differ
handshakeError(res) ==
  IF ~res.read THEN handshakeIoError
  ELSE IF ~hashMatches(res) THEN hashMismatch
  ELSE nil

\* handshake() with the answer res, and on success ready() lines 144-190:
\* the channels are made, handleKeepalive and the receive loop are started
handshakeWith(res) ==
  /\ alive
  /\ callerpc = "handshake"
  /\ readyErr' = handshakeError(res)
  /\ IF handshakeError(res) = nil
       THEN /\ amChoking' = TRUE /\ amInterested' = FALSE
            /\ peerChoking' = TRUE /\ peerInterested' = FALSE
            /\ readyEnd' = FALSE
            /\ disconnectCh' = "open"
            /\ kapc' = "sleep" /\ elapsed' = 0
            /\ rxpc' = "scan"
            /\ callerpc' = "ready_wait"
            /\ conn' = conn
       ELSE /\ conn' = "closed"
            /\ callerpc' = "failed"
            /\ UNCHANGED <<amChoking, amInterested, peerChoking,
                           peerInterested, readyEnd, disconnectCh, kapc,
                           elapsed, rxpc>>
  /\ UNCHANGED <<peerClosed, readySent, readyClosed, downloadedCh,
                 downloadedSent, disconnectSent, blockQueueCh, tokens, done,
                 nMsgs, unchokes, cur, pending, nVerify, downHash, nKeepalive,
                 dlIndex, dlI, dlErr, reqs, unanswered, nInterested, nUnchoke,
                 panicked, mapVars>>

handshake == \E res \in handshakeAnswers : handshakeWith(res)

\* ready(), "case status := <-readyCh": the rendezvous with handleUnchoke's
\* send, after which handleUnchoke closes readyCh and returns
readyReceive ==
  /\ alive
  /\ callerpc = "ready_wait" /\ rxpc = "unchoke_send"
  /\ readySent' = Append(readySent, pending.err)
  /\ readyClosed' = TRUE
  /\ rxpc' = "scan" /\ pending' = noPending /\ cur' = noMsg
  /\ IF pending.err = "true"
     THEN callerpc' = "ready_ok" /\ conn' = conn /\ readyErr' = nil
     ELSE callerpc' = "failed" /\ conn' = "closed" /\ readyErr' = readyFail
  /\ UNCHANGED <<peerClosed, amChoking, amInterested, peerChoking,
                 peerInterested, elapsed, readyEnd,
                 downloadedCh, downloadedSent, disconnectCh, disconnectSent,
                 blockQueueCh, tokens, done, nMsgs, unchokes, nVerify, downHash,
                 kapc, nKeepalive, dlIndex, dlI, dlErr, reqs, unanswered,
                 nInterested, nUnchoke, panicked, mapVars>>

\* ready(), "case <-time.After(time.Second * 30)"
readyTimeout ==
  /\ alive
  /\ callerpc = "ready_wait"
  /\ callerpc' = "failed" /\ conn' = "closed"
  /\ readyErr' = readyTimedOut
  /\ UNCHANGED <<peerClosed, amChoking, amInterested, peerChoking,
                 peerInterested, elapsed, readyEnd, readySent,
                 readyClosed, downloadedCh, downloadedSent, disconnectCh,
                 disconnectSent, blockQueueCh, tokens, done, nMsgs, unchokes,
                 rxpc, cur, pending, nVerify, downHash, kapc, nKeepalive,
                 dlIndex, dlI, dlErr, reqs, unanswered, nInterested, nUnchoke,
                 panicked, mapVars>>

(***************************************************************************)
(* The receive loop of ready() and the handlers it calls.                  *)
(***************************************************************************)
\* scanner.Scan() returned a message: pc.lastReciveTime = time.Now().Unix().
\* The scanner reads ahead, so messages the peer sent before either side
\* closed the socket may still be returned after the close.
scanned ==
  /\ alive
  /\ rxpc = "scan"
  /\ nMsgs < MaxMsgs
  /\ nMsgs' = nMsgs + 1
  /\ elapsed' = 0

\* length == 0 (keepalive) and the message ids with an empty case
recvNoop(m) ==
  /\ scanned
  /\ m.id \in {"keepalive", "choke"}
  /\ UNCHANGED <<unchokes, conn, peerClosed, amChoking, amInterested, peerChoking,
                 peerInterested, readyEnd, readySent,
                 readyClosed, downloadedCh, downloadedSent, disconnectCh,
                 disconnectSent, blockQueueCh, tokens, done, rxpc, cur,
                 pending, nVerify, downHash, kapc, nKeepalive, callerpc,
                 dlIndex, dlI, dlErr, reqs, unanswered, nInterested, nUnchoke,
                 panicked,
                 readyErr, mapVars>>

\* handleUnchoke: "if pc.readyEnd { return }"
unchokeSeen_Never == FALSE
unchokeSeen == readyEnd

\* handleUnchoke: "if pc.amInterested { readyCh <- true } else { readyCh <- false }"
readyStatus_Always == "true"
readyStatus == IF amInterested THEN "true" ELSE "false"

\* case message.IdUnchoke: handleUnchoke up to its send on readyCh, which
\* blocks until ready() receives (readyReceive) and panics on a closed channel
recvUnchoke(m) ==
  /\ scanned
  /\ m.id = "unchoke"
  /\ unchokes' = unchokes + 1
  /\ peerChoking' = FALSE
  /\ IF unchokeSeen
     THEN UNCHANGED <<readyEnd, rxpc, cur, pending, panicked>>
     ELSE /\ readyEnd' = TRUE
          /\ cur' = cur
          /\ pending' = [err |-> readyStatus, kind |-> "ready"]
          /\ IF readyClosed
             THEN panicked' = "send on closed readyCh" /\ rxpc' = rxpc
             ELSE panicked' = panicked /\ rxpc' = "unchoke_send"
  /\ UNCHANGED <<conn, peerClosed, amChoking, amInterested, peerInterested,
                 readySent, readyClosed, downloadedCh,
                 downloadedSent, disconnectCh, disconnectSent, blockQueueCh,
                 tokens, done, nVerify, downHash, kapc, nKeepalive,
                 callerpc, dlIndex, dlI, dlErr, reqs, unanswered, nInterested,
                 nUnchoke, readyErr, mapVars>>

\* handleBitfield: "if len(have) > 0"
peerIsUseful_Always(have) == TRUE
peerIsUseful(have) == Cardinality(have) > 0

\* case message.IdBitfield: handleBitfield; the two Writes ignore their errors
recvBitfield(m) ==
  /\ scanned
  /\ m.id = "bitfield"
  /\ IF peerIsUseful(getHavePieces(done, m.have))
     THEN /\ nInterested' = nInterested + 1
          /\ nUnchoke' = nUnchoke + 1
          /\ amInterested' = TRUE
          /\ amChoking' = FALSE
          /\ conn' = conn
     ELSE /\ conn' = "closed"
          /\ UNCHANGED <<nInterested, nUnchoke, amInterested, amChoking>>
  /\ UNCHANGED <<peerClosed, peerChoking, peerInterested, readyEnd,
                 readySent, readyClosed, downloadedCh, downloadedSent,
                 disconnectCh, disconnectSent, blockQueueCh, tokens, done,
                 unchokes, rxpc, cur, pending, nVerify, downHash, kapc,
                 nKeepalive, callerpc, dlIndex, dlI, dlErr, reqs, unanswered,
                 panicked,
                 readyErr, mapVars>>

\* handlePiece: the error sent on pc.downloadedCh when a file write fails
writeFailureError == errPieceCheckFailed

\* case message.IdPiece: handlePiece, lines 297-369: the fileBlocks are
\* computed and written one by one. failAt names the fileBlock whose
\* OpenFile or WriteAt fails (0: none). On a failure the handler sends on
\* pc.downloadedCh; otherwise it marks the block done and receives from
\* pc.blockQueueCh. A nil channel blocks the handler for good.
recvPiece(m) ==
  /\ scanned
  /\ m.id = "piece"
  /\ LET fbs == fileBlocksOf(TRUE, torrentFds, torrentPieceLength, m.index,
                             m.begin, lengthOfBlock(m.index, m.begin \div blockSize))
     IN \E failAt \in 0..Len(fbs) :
          /\ cur' = m
          /\ IF failAt > 0
             THEN /\ pending' = [err |-> writeFailureError, kind |-> "write"]
                  /\ rxpc' = IF downloadedCh = "nil" THEN "blocked"
                             ELSE "write_failed_send"
                  /\ panicked' = IF downloadedCh = "closed"
                                 THEN "send on closed downloadedCh" ELSE panicked
                  /\ UNCHANGED <<done, unanswered>>
             ELSE /\ done' = setBlockDone(done, m.index, m.begin)
                  /\ unanswered' = unanswered \ {<<m.index, m.begin>>}
                  /\ rxpc' = IF blockQueueCh = "nil" THEN "blocked"
                             ELSE "release"
                  /\ UNCHANGED <<pending, panicked>>
  /\ UNCHANGED <<conn, peerClosed, amChoking, amInterested, peerChoking,
                 peerInterested, readyEnd, readySent,
                 readyClosed, downloadedCh, downloadedSent, disconnectCh,
                 disconnectSent, blockQueueCh, tokens, unchokes, nVerify,
                 downHash, kapc, nKeepalive, callerpc, dlIndex, dlI, dlErr,
                 reqs, nInterested, nUnchoke, readyErr, mapVars>>

\* handlePiece: "if pc.torrent.pieceStates.isPieceDone(int(piece.Index))"
pieceComplete_LastBlock(d, m) ==
  isBlockDone(d, m.index, blockSize * (blockCount(m.index) - 1))
pieceComplete(d, m) == isPieceDone(d, m.index)

\* handlePiece: the value sent once the piece is read back and hashed
verifyResult_Swapped(hash) == IF hash = "equal" THEN errPieceCheckFailed ELSE nil
verifyResult(hash) == IF hash = "equal" THEN nil ELSE errPieceCheckFailed

\* handlePiece: pc.conn.Close() on line 407, before the result is sent
closeBeforeResult(c) == "closed"

\* handlePiece, lines 369-417: "<-pc.blockQueueCh" returns (a token was
\* there, or downloadPiece closed the channel); if the piece is done it is
\* read back (a failing Open, Seek or CopyN panics), the socket is closed
\* and the result is about to be sent on pc.downloadedCh
release ==
  /\ alive
  /\ rxpc = "release"
  /\ tokens > 0 \/ blockQueueCh = "closed"
  /\ tokens' = IF tokens > 0 THEN tokens - 1 ELSE 0
  /\ IF pieceComplete(done, cur)
     THEN \E read \in {"equal", "differs", "io error"} :
            /\ nVerify' = nVerify + 1
            /\ IF read = "io error"
               THEN /\ panicked' = "verification read"
                    /\ UNCHANGED <<conn, downHash, pending, rxpc>>
               ELSE /\ conn' = closeBeforeResult(conn)
                    /\ downHash' = read
                    /\ pending' = [err |-> verifyResult(read), kind |-> "verify"]
                    /\ rxpc' = IF downloadedCh = "nil" THEN "blocked"
                               ELSE "verified_send"
                    /\ panicked' = IF downloadedCh = "closed"
                                   THEN "send on closed downloadedCh"
                                   ELSE panicked
            /\ cur' = cur
     ELSE /\ rxpc' = "scan" /\ cur' = noMsg
          /\ UNCHANGED <<conn, nVerify, downHash, pending, panicked>>
  /\ UNCHANGED <<peerClosed, amChoking, amInterested, peerChoking,
                 peerInterested, elapsed, readyEnd, readySent,
                 readyClosed, downloadedCh, downloadedSent, disconnectCh,
                 disconnectSent, blockQueueCh, done, nMsgs, unchokes, kapc,
                 nKeepalive, callerpc, dlIndex, dlI, dlErr, reqs, unanswered,
                 nInterested, nUnchoke, readyErr, mapVars>>

\* the errors scanner.Err() can hold when Scan() returns false: a read on a
\* socket this side closed fails; the remote side going away is a clean
\* end of stream (nil, turned into io.EOF) or a read error
scanErrors == IF conn = "closed" THEN {readError} ELSE {EOF, readError}

\* ready(), lines 183-188: scanner.Scan() returned false
loopEnd ==
  /\ alive
  /\ rxpc = "scan"
  /\ conn = "closed" \/ peerClosed
  /\ \E e \in scanErrors : pending' = [err |-> e, kind |-> "disconnect"]
  /\ rxpc' = "disconnect_send"
  /\ UNCHANGED <<conn, peerClosed, amChoking, amInterested, peerChoking,
                 peerInterested, elapsed, readyEnd, readySent,
                 readyClosed, downloadedCh, downloadedSent, disconnectCh,
                 disconnectSent, blockQueueCh, tokens, done, nMsgs, unchokes,
                 cur, nVerify, downHash, kapc, nKeepalive, callerpc, dlIndex,
                 dlI, dlErr, reqs, unanswered, nInterested, nUnchoke,
                 panicked,
                 readyErr, mapVars>>

(***************************************************************************)
(* downloadPiece(index).                                                   *)
(***************************************************************************)
\* where the loop "for i := 0; i < blockCount; i++" goes with counter i
loopOrWait(i) == IF i < blockCount(dlIndex) THEN "dl_check" ELSE "dl_wait"

\* downloadPiece, lines 212-217: the caller picks a piece, the two channels
\* are made
downloadPiece ==
  /\ alive
  /\ callerpc = "ready_ok"
  /\ \E index \in pieces : dlIndex' = index
  /\ downloadedCh' = "open"
  /\ blockQueueCh' = "open" /\ tokens' = 0
  /\ dlI' = 0 /\ dlErr' = nil
  /\ callerpc' = "dl_check"
  /\ UNCHANGED <<conn, peerClosed, amChoking, amInterested, peerChoking,
                 peerInterested, elapsed, readyEnd, readySent,
                 readyClosed, downloadedSent, disconnectCh, disconnectSent,
                 done, nMsgs, unchokes, rxpc, cur, pending, nVerify, downHash,
                 kapc, nKeepalive, reqs, unanswered, nInterested, nUnchoke,
                 panicked,
                 readyErr, mapVars>>

\* lines 219-221: "offset := blockSize * i", "if ...isBlockDone(index, offset)"
skipBlock_Never(d, index, i) == FALSE
skipBlock(d, index, i) == isBlockDone(d, index, blockSize * i)

\* lines 219-223: "if pc.torrent.pieceStates.isBlockDone(index, offset) { continue }"
checkBlock ==
  /\ alive
  /\ callerpc = "dl_check"
  /\ IF skipBlock(done, dlIndex, dlI)
     THEN dlI' = dlI + 1 /\ callerpc' = loopOrWait(dlI + 1)
     ELSE dlI' = dlI /\ callerpc' = "dl_select"
  /\ UNCHANGED <<conn, peerClosed, amChoking, amInterested, peerChoking,
                 peerInterested, elapsed, readyEnd, readySent,
                 readyClosed, downloadedCh, downloadedSent, disconnectCh,
                 disconnectSent, blockQueueCh, tokens, done, nMsgs, unchokes,
                 rxpc, cur, pending, nVerify, downHash, kapc, nKeepalive,
                 dlIndex, dlErr, reqs, unanswered, nInterested, nUnchoke,
                 panicked,
                 readyErr, mapVars>>

\* line 247: the Request for block dlI is written; a failed Write breaks
\* out of the loop to the final select
writeRequest(w) ==
  IF w
  THEN /\ reqs' = Append(reqs, [index |-> dlIndex, begin |-> blockSize * dlI,
                                length |-> lengthOfBlock(dlIndex, dlI)])
       /\ unanswered' = unanswered \cup {<<dlIndex, blockSize * dlI>>}
       /\ dlI' = dlI + 1
       /\ callerpc' = loopOrWait(dlI + 1)
       /\ dlErr' = nil
  ELSE /\ dlErr' = "write error"
       /\ callerpc' = "dl_wait"
       /\ UNCHANGED <<reqs, unanswered, dlI>>

\* "case pc.blockQueueCh <- nil": room in the queue
queueHasRoom(n) == n < queueCap

\* lines 233-250, "case pc.blockQueueCh <- nil": a slot is taken, then the
\* Request is written
acquire ==
  /\ alive
  /\ callerpc = "dl_select"
  /\ queueHasRoom(tokens)
  /\ tokens' = tokens + 1
  /\ \E w \in writeOutcomes : writeRequest(w)
  /\ UNCHANGED <<conn, peerClosed, amChoking, amInterested, peerChoking,
                 peerInterested, elapsed, readyEnd, readySent,
                 readyClosed, downloadedCh, downloadedSent, disconnectCh,
                 disconnectSent, blockQueueCh, done, nMsgs, unchokes, rxpc, cur,
                 pending, nVerify, downHash, kapc, nKeepalive, dlIndex,
                 nInterested, nUnchoke, panicked,
                 readyErr, mapVars>>

\* downloadPiece returns err: "if err != nil { pc.conn.Close() }" and the
\* deferred close(pc.blockQueueCh); c is the socket as the sender left it
returnWith(e, c) ==
  /\ dlErr' = e
  /\ callerpc' = "returned"
  /\ blockQueueCh' = "closed"
  /\ conn' = IF e # nil THEN "closed" ELSE c
  /\ UNCHANGED <<reqs, unanswered, dlI>>

\* "case err = <-pc.downloadedCh" of either select, meeting handlePiece's
\* send. After a write failure handlePiece closes the socket and returns
\* (lines 362-364); after verification it closes pc.downloadedCh (line 418).
\* In the loop a nil result falls through to line 247.
receiveDownloaded ==
  /\ alive
  /\ callerpc \in {"dl_select", "dl_wait"}
  /\ rxpc \in {"write_failed_send", "verified_send"}
  /\ downloadedSent' = Append(downloadedSent, pending.err)
  /\ downloadedCh' = IF pending.kind = "verify" THEN "closed" ELSE downloadedCh
  /\ rxpc' = "scan" /\ pending' = noPending /\ cur' = noMsg
  /\ LET c == IF pending.kind = "write" THEN "closed" ELSE conn
     IN IF callerpc = "dl_select" /\ pending.err = nil
        THEN /\ \E w \in writeOutcomes : writeRequest(w)
             /\ conn' = c
             /\ blockQueueCh' = blockQueueCh
        ELSE returnWith(pending.err, c)
  /\ UNCHANGED <<peerClosed, amChoking, amInterested, peerChoking,
                 peerInterested, elapsed, readyEnd, readySent,
                 readyClosed, disconnectCh, disconnectSent, tokens, done,
                 nMsgs, unchokes, nVerify, downHash, kapc, nKeepalive, dlIndex,
                 nInterested, nUnchoke, panicked,
                 readyErr, mapVars>>

\* "case err = <-pc.downloadedCh" on the channel once handlePiece closed it:
\* the receive returns nil at once
receiveDownloadedClosed ==
  /\ alive
  /\ callerpc \in {"dl_select", "dl_wait"}
  /\ downloadedCh = "closed"
  /\ IF callerpc = "dl_select"
     THEN /\ \E w \in writeOutcomes : writeRequest(w)
          /\ UNCHANGED <<conn, blockQueueCh>>
     ELSE returnWith(nil, conn)
  /\ UNCHANGED <<peerClosed, amChoking, amInterested, peerChoking,
                 peerInterested, elapsed, readyEnd, readySent,
                 readyClosed, downloadedCh, downloadedSent, disconnectCh,
                 disconnectSent, tokens, done, nMsgs, unchokes, rxpc, cur,
                 pending, nVerify, downHash, kapc, nKeepalive, dlIndex,
                 nInterested, nUnchoke, panicked,
                 readyErr, mapVars>>

\* "case err = <-pc.disconnectCh" of either select, meeting the receive
\* loop's "pc.disconnectCh <- err", after which the loop closes the channel
\* and its goroutine ends (lines 188-190)
receiveDisconnect ==
  /\ alive
  /\ callerpc \in {"dl_select", "dl_wait"}
  /\ rxpc = "disconnect_send"
  /\ disconnectSent' = Append(disconnectSent, pending.err)
  /\ disconnectCh' = "closed"
  /\ rxpc' = "done" /\ pending' = noPending
  /\ returnWith(pending.err, conn)
  /\ UNCHANGED <<peerClosed, amChoking, amInterested, peerChoking,
                 peerInterested, elapsed, readyEnd, readySent,
                 readyClosed, downloadedCh, downloadedSent, tokens, done,
                 nMsgs, unchokes, cur, nVerify, downHash, kapc, nKeepalive,
                 dlIndex, nInterested, nUnchoke, panicked,
                 readyErr, mapVars>>

(***************************************************************************)
(* handleKeepalive.                                                        *)
(***************************************************************************)
\* the seconds by which time.Now().Unix() may have moved on beyond the
\* 120 when time.Sleep returns
wakeLate == {0, 1}
\* differences above the threshold all behave alike
capElapsed(e) == IF e > keepaliveTimeout THEN keepaliveTimeout + 1 ELSE e

\* "if time.Now().Unix()-pc.lastReciveTime > keepaliveTimeout"
idleTooLong_AtLeast(e) == e >= keepaliveTimeout
idleTooLong(e) == e > keepaliveTimeout

\* handleKeepalive, one turn of the loop: time.Sleep(time.Minute * 2)
\* returns, the idle time is checked, the keepalive is written
keepaliveTick ==
  /\ alive
  /\ kapc = "sleep"
  /\ \E late \in wakeLate, w \in writeOutcomes :
       LET e == capElapsed(elapsed + sleepSeconds + late)
       IN /\ elapsed' = e
          /\ IF idleTooLong(e) \/ ~w
             THEN /\ conn' = "closed" /\ kapc' = "stopped"
                  /\ nKeepalive' = nKeepalive
             ELSE /\ nKeepalive < MaxTicks
                  /\ nKeepalive' = nKeepalive + 1
                  /\ UNCHANGED <<conn, kapc>>
  /\ UNCHANGED <<peerClosed, amChoking, amInterested, peerChoking,
                 peerInterested, readyEnd, readySent, readyClosed,
                 downloadedCh, downloadedSent, disconnectCh, disconnectSent,
                 blockQueueCh, tokens, done, nMsgs, unchokes, rxpc, cur, pending,
                 nVerify, downHash, callerpc, dlIndex, dlI, dlErr, reqs,
                 unanswered, nInterested, nUnchoke, panicked,
                 readyErr, mapVars>>

(***************************************************************************)
(* The connection as a whole.                                              *)
(***************************************************************************)
Next ==
  \/ dialMse
  \/ handshake
  \/ readyReceive
  \/ readyTimeout
  \/ peerClose
  \/ \E m \in peerMessages : recvNoop(m)
  \/ \E m \in peerMessages : recvUnchoke(m)
  \/ \E m \in peerMessages : recvBitfield(m)
  \/ \E m \in peerMessages : recvPiece(m)
  \/ release
  \/ loopEnd
  \/ downloadPiece
  \/ checkBlock
  \/ acquire
  \/ receiveDownloaded
  \/ receiveDownloadedClosed
  \/ receiveDisconnect
  \/ keepaliveTick

Spec == Init /\ [][Next]_vars

(***************************************************************************)
(* The mapping as a specification of its own: draw an input, map it.       *)
(***************************************************************************)
\* handlePiece, lines 297-345, on the drawn input
mapBlock ==
  /\ mapIn # noInput
  /\ fileBlocks = << >>
  /\ fileBlocks' = fileBlocksOf(mapIn.multi, fileDetails(mapIn.lens),
                                mapIn.PieceLength, mapIn.Index, mapIn.Begin,
                                mapIn.blockLength)
  /\ UNCHANGED <<mapIn, planLength, plan, connVars>>

InitMap ==
  /\ connInit
  /\ done = {}
  /\ fileBlocks = << >>
  /\ planLength = 0 /\ plan = << >>
  /\ \E multi \in BOOLEAN, lens \in fileLens, PieceLength \in mapPieceLengths :
       \E b \in 0..(sumLens(lens) - 1) :
         \E bl \in 0..(sumLens(lens) - b) :
           /\ multi \/ Len(lens) = 1
           /\ mapIn = mapInput(multi, lens, PieceLength, b, bl)

NextMap == mapBlock

SpecMap == InitMap /\ [][NextMap]_vars

(***************************************************************************)
(* The Requests of one piece as a specification of their own: draw a piece *)
(* length, run the loop of downloadPiece with no block done, every slot    *)
(* granted and every Write succeeding.                                     *)
(***************************************************************************)
\* the piece lengths drawn: up to MaxPlanBlocks full blocks and a remainder
planRemainders == {0, 1, 2, 100, blockSize \div 2, blockSize - 1}
planLengths ==
  {k * blockSize + r : k \in 0..MaxPlanBlocks, r \in planRemainders}

\* downloadPiece, lines 218-247, one turn of the loop: the Request of block
\* i = Len(plan) is written
issueRequest ==
  /\ Len(plan) < blockCountOf(planLength)
  /\ plan' = Append(plan,
                    [begin |-> blockSize * Len(plan),
                     length |-> blockLengthOf(planLength,
                                              blockCountOf(planLength), Len(plan))])
  /\ UNCHANGED <<planLength, mapIn, fileBlocks, connVars>>

InitReq ==
  /\ connInit
  /\ done = {}
  /\ mapIn = noInput /\ fileBlocks = << >>
  /\ plan = << >>
  /\ planLength \in planLengths

NextReq == issueRequest

SpecReq == InitReq /\ [][NextReq]_vars

(***************************************************************************)
(* Properties of the mapping.                                              *)
(***************************************************************************)
\* the torrent offset of the first byte of the block of an input
blockBeginOf(in) == in.Index * in.PieceLength + in.Begin
\* [Begin, End) of the file a fileBlock targets (the only file of a
\* single-file torrent covers the whole payload)
targetOf(in, fb) ==
  IF in.multi THEN fileDetails(in.lens)[fb.file + 1]
  ELSE [Begin |-> 0, End |-> sumLens(in.lens)]

tilesBlock(in, fbs) ==
  /\ Len(fbs) >= 1
  /\ fbs[1].blockBegin = 0
  /\ \A i \in 1..Len(fbs) : fbs[i].blockBegin <= fbs[i].blockEnd
  /\ \A i \in 1..(Len(fbs) - 1) : fbs[i + 1].blockBegin = fbs[i].blockEnd
  /\ fbs[Len(fbs)].blockEnd = in.blockLength
  /\ \A i \in 1..Len(fbs) :
       /\ fbs[i].fileSeek =
            blockBeginOf(in) + fbs[i].blockBegin - targetOf(in, fbs[i]).Begin
       /\ fbs[i].fileSeek >= 0
       /\ targetOf(in, fbs[i]).Begin + fbs[i].fileSeek
            + (fbs[i].blockEnd - fbs[i].blockBegin) <= targetOf(in, fbs[i]).End

\* C4: for every contiguous, ordered layout (single-file or multi-file) and
\* every block inside the payload, the fileBlocks handlePiece computes tile
\* the block: the sub-ranges start at 0, are contiguous and non-overlapping,
\* end at the block length, and every fileSeek is the torrent offset of the
\* sub-range's first byte minus the Begin of the file it targets, inside it.
C4_MappingTilesBlock == fileBlocks # << >> => tilesBlock(mapIn, fileBlocks)

\* C4 witness: a mapped block that crosses three file boundaries, with bytes
\* in each of the four files
C4_Witness ==
  /\ Len(fileBlocks) >= 4
  /\ \A i \in 1..Len(fileBlocks) : fileBlocks[i].blockBegin < fileBlocks[i].blockEnd

\* the end-to-end scenario: files of 10 and 20 bytes, block at [5,25)
isScenario(in) ==
  /\ in.multi /\ in.lens = scenarioLens
  /\ blockBeginOf(in) = 5 /\ in.blockLength = 20

\* C5 as stated: the block at [5,25) of the 10+20 layout splits into
\* (file0, seek 5, bytes [0:5]) and (file1, seek 0, bytes [5:25]).
C5_ScenarioAsStated ==
  (isScenario(mapIn) /\ fileBlocks # << >>) =>
    fileBlocks = << [file |-> 0, fileSeek |-> 5, blockBegin |-> 0, blockEnd |-> 5],
                    [file |-> 1, fileSeek |-> 0, blockBegin |-> 5, blockEnd |-> 25] >>

\* C5 amended: the block has 20 bytes, so the second fileBlock takes block
\* bytes [5:20]: (file0, seek 5, bytes [0:5]) and (file1, seek 0, bytes [5:20]).
C5_ScenarioSplit ==
  (isScenario(mapIn) /\ fileBlocks # << >>) =>
    fileBlocks = << [file |-> 0, fileSeek |-> 5, blockBegin |-> 0, blockEnd |-> 5],
                    [file |-> 1, fileSeek |-> 0, blockBegin |-> 5, blockEnd |-> 20] >>

\* C5 witness: the scenario's block has been mapped
C5_Witness == isScenario(mapIn) /\ Len(fileBlocks) = 2

(***************************************************************************)
(* Properties of the connection.                                           *)
(***************************************************************************)
\* C1: the readiness signal is sent at most once: only the first Unchoke
\* leaves a value to send on readyCh, the channel is closed with that one
\* send, and no later Unchoke sends on or closes the closed channel.
C1_ReadySignalledOnce ==
  /\ Len(readySent) <= 1
  /\ readyClosed <=> readySent # << >>
  /\ rxpc = "unchoke_send" =>
       unchokes = 1 /\ readySent = << >> /\ pending.kind = "ready"
  /\ panicked # "send on closed readyCh"

\* C1 witness: two or more Unchoke messages were processed and the one
\* signal was received by ready()
C1_Witness ==
  /\ unchokes >= 2
  /\ readySent = << "true" >> /\ readyClosed
  /\ alive /\ rxpc = "scan"

\* C2 as stated: during a downloadPiece call at most 5 Requests written on
\* the connection have not been answered by a processed Piece message.
C2_InFlightAtMostFive ==
  callerpc \in {"dl_check", "dl_select", "dl_wait"} =>
    Cardinality(unanswered) <= queueCap

\* a step of the receive loop that handles a Bitfield naming no piece the
\* tracker still lacks
uselessBitfield ==
  \E m \in peerMessages :
    /\ recvBitfield(m)
    /\ getHavePieces(done, m.have) = {}

nothingSent == nInterested' = nInterested /\ nUnchoke' = nUnchoke

\* C3 as stated: a Bitfield without a wanted piece closes the socket, sends
\* neither Interested nor Unchoke, and the flags have their initial values
\* (not interested, choking).
C3_FlagsInitial ==
  [][uselessBitfield =>
       /\ conn' = "closed"
       /\ nothingSent
       /\ amInterested' = FALSE /\ amChoking' = TRUE]_vars

\* C3 amended: a Bitfield without a wanted piece closes the socket, sends
\* neither Interested nor Unchoke, and leaves the two flags as they were
\* (an earlier Bitfield may have set them).
C3_FlagsUnchanged ==
  [][uselessBitfield =>
       /\ conn' = "closed"
       /\ nothingSent
       /\ amInterested' = amInterested /\ amChoking' = amChoking]_vars

\* C3 witness: the first message was a Bitfield without a wanted piece: the
\* socket is closed while ready() still waits and nothing was sent
C3_Witness ==
  /\ nMsgs = 1 /\ rxpc = "scan" /\ alive
  /\ conn = "closed" /\ callerpc = "ready_wait" /\ kapc = "sleep"
  /\ nInterested = 0 /\ nUnchoke = 0
  /\ ~amInterested /\ amChoking

\* C6: in whatever order the blocks of a piece arrive, verification is
\* triggered by exactly the handlePiece calls that find every block of the
\* piece done after marking their own, never while a block is not done.
C6_VerifyWhenAllDone ==
  [][(nVerify' # nVerify) <=>
       (release /\ isPieceDone(done, cur.index))]_vars

\* C6 witness: both blocks of the 2-block piece were requested, offset
\* 16384 arrived first, and the Piece at offset 0 triggered the verification
C6_Witness ==
  /\ dlIndex = 1 /\ Len(reqs) = 2
  /\ reqs[1].begin = 0 /\ reqs[2].begin = blockSize
  /\ unanswered = {}
  /\ cur.id = "piece" /\ cur.index = 1 /\ cur.begin = 0
  /\ nVerify = 1 /\ rxpc = "verified_send"

\* C7: when the piece is complete handlePiece has closed the socket before
\* the result is delivered, the result is nil for an equal digest and
\* the piece-check-failed error for a different one, and it is the one
\* result of the channel, which is closed after it (a Piece message that
\* completes the piece again after that makes the send panic: no second
\* result).
C7_VerifiedResult ==
  /\ (alive /\ rxpc = "verified_send") =>
       /\ conn = "closed"
       /\ pending.kind = "verify"
       /\ pending.err = (IF downHash = "equal" THEN nil ELSE errPieceCheckFailed)
       /\ downloadedCh = "open"
  /\ downloadedCh = "closed" =>
       /\ conn = "closed"
       /\ Len(downloadedSent) >= 1
       /\ alive =>
            downloadedSent[Len(downloadedSent)] =
              (IF downHash = "equal" THEN nil ELSE errPieceCheckFailed)

\* C7 witness: a complete piece whose digest differed: downloadPiece
\* received the piece-check-failed error, the socket is closed
C7_Witness ==
  /\ alive /\ downloadedCh = "closed" /\ downHash = "differs"
  /\ callerpc = "returned" /\ dlErr = errPieceCheckFailed
  /\ conn = "closed"

\* C8 as stated: the error signalled for a failed file write is distinct
\* from the one signalled for a digest mismatch.
C8_WriteErrorDistinct ==
  (rxpc = "write_failed_send" /\ pending.kind = "write") =>
    pending.err # verifyResult("differs")

\* the outcome of a tick that found the connection not idle for too long
keepaliveSent ==
  /\ nKeepalive' = nKeepalive + 1
  /\ kapc' = "sleep" /\ conn' = conn
keepaliveStopped ==
  /\ nKeepalive' = nKeepalive
  /\ kapc' = "stopped" /\ conn' = "closed"

\* a connection that received no message is closed at the second tick
idleClosedInTwoTicks ==
  [][(keepaliveTick /\ nMsgs = 0 /\ nKeepalive >= 1) => keepaliveStopped]_vars

C10_TerminationDelivered ==
  (rxpc \in {"disconnect_send", "done"} /\ callerpc \in {"failed", "returned"}) =>
    /\ rxpc = "done"
    /\ Len(disconnectSent) = 1 /\ disconnectSent[1] # nil
    /\ disconnectCh = "closed"

\* the four flags as handshake() initialises them
flagsInitialised ==
  /\ amChoking' = TRUE /\ amInterested' = FALSE
  /\ peerChoking' = TRUE /\ peerInterested' = FALSE

\* C11: a handshake whose response carries another content hash fails,
\* whatever its other fields: the socket is closed, the flags are untouched
\* and neither goroutine is started; a handshake that succeeds had matching
\* hashes and sets the flags to choking / not interested in both directions.
C11_HandshakeRejectsOtherHash ==
  [][\A res \in handshakeAnswers :
       handshakeWith(res) =>
         IF res.InfoHash # "ours"
         THEN /\ readyErr' # nil /\ callerpc' = "failed"
              /\ conn' = "closed"
              /\ UNCHANGED <<amChoking, amInterested, peerChoking, peerInterested>>
              /\ rxpc' = "off" /\ kapc' = "off" /\ disconnectCh' = "nil"
         ELSE readyErr' = nil => flagsInitialised]_vars

\* C11 witness: the handshake was rejected for its hash: ready() returned
\* that error, the socket is closed, nothing was initialised
C11_Witness ==
  /\ readyErr = hashMismatch /\ callerpc = "failed"
  /\ conn = "closed"
  /\ ~amChoking /\ ~peerChoking
  /\ rxpc = "off" /\ kapc = "off"

\* C12: the wait of ready() ends in success exactly by receiving the signal
\* of the first Unchoke, processed while amInterested is true (a Bitfield
\* with a wanted piece came before); it ends in an error with the socket
\* closed when that Unchoke was processed while amInterested is false, and
\* when the 30 seconds pass without the signal.
C12_ReadyIffInterestedUnchoke ==
  [][(callerpc = "ready_wait" /\ callerpc' # "ready_wait") =>
       /\ (callerpc' = "ready_ok") <=>
            (readyReceive /\ unchokes = 1 /\ amInterested /\ nInterested >= 1)
       /\ callerpc' = "ready_ok" => readyErr' = nil
       /\ callerpc' # "ready_ok" =>
            /\ callerpc' = "failed" /\ conn' = "closed"
            /\ \/ readyErr' = readyFail /\ readyReceive /\ ~amInterested
               \/ readyErr' = readyTimedOut /\ readyTimeout]_vars

\* C12 witness: the one message read was no Unchoke and did not make this
\* side interested; ready() returned the time-out error, the socket is
\* closed and the receive loop has seen it
C12_Witness ==
  /\ callerpc = "failed" /\ readyErr = readyTimedOut
  /\ unchokes = 0 /\ nMsgs = 1 /\ nInterested = 0 /\ nKeepalive = 0
  /\ conn = "closed" /\ rxpc = "disconnect_send"

(***************************************************************************)
(* Properties of the Requests of a piece.                                  *)
(***************************************************************************)
RECURSIVE sumLengths(_)
sumLengths(rs) ==
  IF rs = << >> THEN 0 ELSE Head(rs).length + sumLengths(Tail(rs))

\* all Requests of the piece have been written
planComplete == Len(plan) = blockCountOf(planLength)

\* C13: with no block done, the Requests of a piece of any length name the
\* offsets 0, 16384, ... in turn; once all are written their number is
\* ceil(pieceLength / 16384), every one but the last has length 16384, the
\* last has length pieceLength - 16384 * (count - 1), between 1 and 16384,
\* and the lengths sum to pieceLength.
C13_RequestsCoverPiece ==
  /\ \A i \in 1..Len(plan) : plan[i].begin = 16384 * (i - 1)
  /\ planComplete =>
       LET n == Len(plan)
       IN /\ 16384 * n >= planLength /\ 16384 * (n - 1) < planLength
          /\ \A i \in 1..(n - 1) : plan[i].length = 16384
          /\ n >= 1 =>
               /\ plan[n].length = planLength - 16384 * (n - 1)
               /\ plan[n].length >= 1 /\ plan[n].length <= 16384
          /\ sumLengths(plan) = planLength

\* C13 witness: all Requests of a piece of several blocks with a short last
\* block have been written
C13_Witness ==
  /\ planComplete /\ Len(plan) >= 3
  /\ plan[Len(plan)].length = 100

\* C14 as stated: whatever Piece messages arrive, at most one value is sent
\* on pc.downloadedCh and no send is attempted on it once it is closed.
C14_CompletionSingleUse ==
  /\ Len(downloadedSent) <= 1
  /\ panicked # "send on closed downloadedCh"

\* C15: within a downloadPiece call the Requests written are for the piece
\* of the call, in strictly increasing offset order, each for the block
\* whose turn it is; a block the tracker reports done at its turn is
\* passed over without a Request, so only the remaining blocks are asked for.
C15_RequestsInOrderSkippingDone ==
  /\ [](/\ \A i \in 1..Len(reqs) :
              reqs[i].index = dlIndex /\ reqs[i].begin < blockSize * dlI
        /\ \A i \in 1..(Len(reqs) - 1) : reqs[i].begin < reqs[i + 1].begin)
  /\ [][/\ (checkBlock /\ isBlockDone(done, dlIndex, blockSize * dlI)) =>
             reqs' = reqs /\ dlI' = dlI + 1
        /\ reqs' # reqs =>
             /\ callerpc = "dl_select" /\ dlI' = dlI + 1
             /\ reqs' = Append(reqs, [index |-> dlIndex, begin |-> blockSize * dlI,
                                      length |-> lengthOfBlock(dlIndex, dlI)])]_vars

\* C15 witness: block 0 of the last piece was done when the call began; the
\* call asked for the other block only and went on to wait for the result
C15_Witness ==
  /\ dlIndex = 1 /\ callerpc = "dl_wait" /\ dlI = 2
  /\ <<1, 0>> \in done /\ nMsgs = 2
  /\ Len(reqs) = 1 /\ reqs[1].begin = blockSize

\* the receive loop is inside handlePiece at "<-pc.blockQueueCh" with the
\* queue empty while downloadPiece is in its final select: downloadPiece
\* puts no further token and closes the channel only when it returns, so
\* the loop cannot go on and never reaches lines 183-189
loopStuckInRelease ==
  /\ callerpc = "dl_wait"
  /\ rxpc = "release" /\ tokens = 0 /\ blockQueueCh = "open"

\* C16 as stated: once the socket is closed while a downloadPiece call is
\* pending, the receive loop observes it and its termination error reaches
\* the call, which returns; so in no state with the socket closed and the
\* call pending is the receive loop blocked for good.
C16_DisconnectReachesCall ==
  (alive /\ (conn = "closed" \/ peerClosed)) => ~loopStuckInRelease

(***************************************************************************)
(* Accesses to the fields of peerConn.  For each activity, the fields its  *)
(* next statement reads or writes, as pairs <<field, "read" or "write">>.  *)
(* Two activities whose next statements are both ready to run are ordered  *)
(* by no channel operation: a handoff would keep one of them waiting.      *)
(***************************************************************************)
\* handleKeepalive: after the sleep, line 123 reads pc.lastReciveTime
keepaliveAccess ==
  IF kapc = "sleep" THEN {<<"lastReciveTime", "read">>} ELSE {}

\* the receive goroutine: line 152 writes pc.lastReciveTime for every
\* message scanned, and when the message is a Piece the handler reads
\* pc.downloadedCh (line 362) or pc.blockQueueCh (line 369) before the
\* loop scans again; after the token is taken lines 414-418 read
\* pc.downloadedCh
receiveAccess ==
  IF rxpc = "scan" /\ nMsgs < MaxMsgs
  THEN {<<"lastReciveTime", "write">>, <<"blockQueueCh", "read">>,
        <<"downloadedCh", "read">>}
  ELSE IF rxpc = "release"
       THEN {<<"downloadedCh", "read">>}
       ELSE {}

\* downloadPiece: lines 213-214 assign pc.downloadedCh and pc.blockQueueCh
issuerAccess ==
  IF callerpc = "ready_ok"
  THEN {<<"downloadedCh", "write">>, <<"blockQueueCh", "write">>}
  ELSE {}

\* two accesses to the same field, one of them a write
conflict(a, b) ==
  \E x \in a, y \in b : x[1] = y[1] /\ "write" \in {x[2], y[2]}

\* two activities are about to access one field with no ordering between
\* the two accesses
dataRace ==
  /\ alive
  /\ \/ conflict(keepaliveAccess, receiveAccess)
     \/ conflict(issuerAccess, receiveAccess)
     \/ conflict(keepaliveAccess, issuerAccess)

\* C17 as stated: no field of the connection is written by one activity
\* and read or written by another without a channel handoff ordering the
\* two accesses.
C17_FieldAccessesOrdered == ~dataRace

\* handlePiece found a failing OpenFile or WriteAt and is at the send of
\* line 362 (the send not yet taken by downloadPiece)
writeFailurePending == pending.kind = "write"

\* lines 361-367: a step of handlePiece that ends in a write failure leaves
\* the tracker, the in-flight queue and the verification count as they
\* were, the tracker changes only in a step of handlePiece whose writes
\* all succeeded, and a handler at the send of line 362 takes no token and
\* verifies nothing
writeFailureLeavesBlock ==
  [][/\ ((\E m \in peerMessages : recvPiece(m)) /\ writeFailurePending') =>
          done' = done /\ tokens' = tokens /\ nVerify' = nVerify
     /\ done' # done =>
          (\E m \in peerMessages : recvPiece(m)) /\ ~writeFailurePending'
     /\ writeFailurePending =>
          done' = done /\ nVerify' = nVerify /\ ~release]_vars

\* C18 as stated: a block is marked done only after all its FileBlocks were
\* written; when a write fails the block is not marked done, no slot is
\* released, no verification is triggered, and the socket is closed: the
\* handler passes its send and closes, it is never left at the send for
\* good with the socket open.
C18_WriteFailureClosesSocket ==
  /\ writeFailureLeavesBlock
  /\ [][(writeFailurePending /\ ~writeFailurePending') =>
          conn' = "closed"]_vars
  /\ []((alive /\ writeFailurePending /\ rxpc = "blocked") => conn = "closed")

\* downloadPiece is in its final select (lines 252-257) on a connection
\* that is alive, with the receive loop between two messages and no result
\* sent or on its way
waitingOnHealthyConnection ==
  /\ alive
  /\ callerpc = "dl_wait"
  /\ conn = "open" /\ ~peerClosed
  /\ rxpc = "scan" /\ downloadedCh = "open"

\* C19 as stated: with a peer that answers every Request and keeps the
\* connection alive, and with file writes succeeding, downloadPiece
\* returns for every initial tracker state of the piece. The terminal
\* signal comes from handlePiece alone, which runs for a Piece message, and
\* such a peer sends one only in answer to a Request; so whenever the
\* issuer waits for the terminal signal on a healthy connection, a Request
\* of this call is still unanswered.
C19_WaitHasRequestOutstanding ==
  waitingOnHealthyConnection => unanswered # {}

\* handlePiece has sent nil on pc.downloadedCh (line 414) during this call
\* and downloadPiece has received it
successSignalled ==
  \E i \in 1..Len(downloadedSent) : downloadedSent[i] = nil

\* downloadPiece has returned nil: every block of its piece is written and
\* a verification with a matching digest was signalled
nilOnlyAfterVerifiedPiece ==
  (callerpc = "returned" /\ dlErr = nil) =>
    /\ isPieceDone(done, dlIndex)
    /\ successSignalled /\ downHash = "equal"

\* downloadPiece has returned after a successful verification of its own
\* piece was signalled: it returned nil, not the error of the disconnect
\* that follows the socket close of line 407
verifiedGivesNil ==
  (callerpc = "returned" /\ successSignalled /\ isPieceDone(done, dlIndex)) =>
    dlErr = nil

\* C20 as stated: downloadPiece(index) returns nil only if the piece with
\* that index was fully written and verified during this call, and once
\* handlePiece has signalled a successful verification downloadPiece
\* returns nil, never a disconnect error.
C20_NilIffVerified == nilOnlyAfterVerifiedPiece /\ verifiedGivesNil

====
